---- MODULE Spec2Model ----
(***************************************************************************)
(* GameService of vault-games-api (src/src/games/game.service.ts) as a     *)
(* state machine over the two collections it talks to: games and users.   *)
(*                                                                         *)
(* A call of a service method is one atomic step, except the two          *)
(* "last games updated" methods, which await two store queries and are    *)
(* two steps with the user collection free to change in between.  The     *)
(* outcome of the last finished call is kept in res until the caller      *)
(* takes it (Return).  Every store query may fail.                         *)
(***************************************************************************)
EXTENDS Integers, Sequences, FiniteSets, TLC

VARIABLES
  games,   \* the game collection: a set of documents
  users,   \* the user collection: a set of documents
  nextId,  \* the next _id the store hands out (never reused)
  now,     \* the wall clock read by new Date()
  pc,      \* the call suspended between its two awaits, or idle
  res      \* the outcome of the last finished call, until it is taken

vars == <<games, users, nextId, now, pc, res>>

-----------------------------------------------------------------------------
(* Bounds of the model *)

\* how many documents the store creates in one run of Spec
MaxGames == 2
\* how far the clock runs
MaxClock == 1

-----------------------------------------------------------------------------
(* Values *)

\* a field that is not there (JavaScript's undefined)
undefined == "<undefined>"

\* String(v), as used to compare user._id with game.userId
String(v) == IF v = undefined THEN "undefined" ELSE v

\* !v for a string-or-undefined v
Falsy(v) == v = undefined \/ v = ""

\* rec.f of a plain object: undefined when the key is not there
Get(rec, f) == IF f \in DOMAIN rec THEN rec[f] ELSE undefined

\* { ...rec, f: v }
Spread(rec, f, v) == [k \in DOMAIN rec \cup {f} |-> IF k = f THEN v ELSE rec[k]]

\* the marker attached when the owning user is not found.  The user field
\* holds an object or a string; the string is written [string |-> s] so that
\* the two kinds can be compared.
Unknown == [string |-> "Unknown"]

validStatuses == {"Pendente", "Progresso", "Pausado", "Completo"}

requiredFields == <<"nome", "description", "image", "userId">>

\* .limit(5)
LIMIT == 5

\* the largest collection SpecReports starts from: one game more than a page
MaxRecent == LIMIT + 1

\* the status the schema gives a game created without one
SchemaDefaultStatus == "Pendente"

\* the users that may exist
UserPool ==
  { [_id |-> "u1", nome |-> "Ana", picture |-> "ana.png"],
    [_id |-> "u2", nome |-> "Bia", picture |-> "bia.png"] }

UserIds == {u._id : u \in UserPool}

\* a CreateGameDto (or a Partial of it: undefined fields are not there)
Dto(n, d, i, u, s) ==
  [nome |-> n, description |-> d, image |-> i, userId |-> u, status |-> s]

NoDto == Dto(undefined, undefined, undefined, undefined, undefined)

-----------------------------------------------------------------------------
(* Errors and outcomes *)

NoError == [kind |-> "none", msg |-> "", arg |-> ""]

BadRequestException(msg, arg) ==
  [kind |-> "BadRequestException", msg |-> msg, arg |-> arg]

NotFoundException(msg, arg) ==
  [kind |-> "NotFoundException", msg |-> msg, arg |-> arg]

\* removedGame._id with removedGame null
TypeError == [kind |-> "TypeError", msg |-> "Cannot read properties of null", arg |-> "_id"]

\* whatever a failing store query rejects with
StoreError == [kind |-> "StoreError", msg |-> "store query failed", arg |-> ""]

\* what save() rejects with when the document does not fit the schema
ValidationError == [kind |-> "ValidationError", msg |-> "Game validation failed", arg |-> "status"]

\* the outcome of a call: its name and arguments, the error it threw (or
\* NoError and the value it returned), and the store queries it issued
Outcome(op, id, userId, dto, err, val, qlog) ==
  [op |-> op, id |-> id, userId |-> userId, dto |-> dto,
   err |-> err, val |-> val, qlog |-> qlog]

NoOutcome == Outcome("none", 0, undefined, NoDto, NoError, undefined, <<>>)

IdlePc == [op |-> "idle", games |-> <<>>, userId |-> undefined]

\* a new call starts when none is suspended and the last outcome was taken
Idle == pc = IdlePc /\ res = NoOutcome

Init ==
  /\ games = {}
  /\ users = {}
  /\ nextId = 1
  /\ now = 0
  /\ pc = IdlePc
  /\ res = NoOutcome

-----------------------------------------------------------------------------
(* Inputs *)

\* the ids a caller passes: of games that exist, were removed, or never were
GameIds == 1..MaxGames

\* the status values a caller sends: one of the enum, the empty string, and
\* one outside the enum
StatusInputs == {"Completo", "", "Bogus"}

\* bodies sent to create: required fields missing alone and together, and
\* with all four there, every owner and status (none included)
CreateInputs ==
  { Dto(n, d, "img", u, "Completo") :
      n \in {undefined, "Zelda"}, d \in {"", "desc"}, u \in {"", "u1"} }
  \cup { Dto("Zelda", "desc", undefined, u, "Completo") : u \in {"", "u1"} }
  \cup { Dto("Zelda", "desc", "img", u, s) :
           u \in UserIds, s \in StatusInputs \cup {undefined} }
  \cup { Dto(undefined, "desc", "img", "u1", "Bogus") }

\* bodies sent to update: nothing, a status, an emptied required field, or
\* two fields at once
UpdateInputs ==
  { NoDto }
  \cup { Dto(undefined, undefined, undefined, undefined, s) : s \in StatusInputs }
  \cup { Dto(undefined, undefined, undefined, "", undefined),
         Dto(undefined, undefined, undefined, "u2", "Completo") }

\* the few bodies sent where every method is called: a game of each owner,
\* and one body that the checks reject
CreateFew ==
  { Dto("Zelda", "desc", "img", "u1", undefined),
    Dto("Zelda", "desc", "img", "u2", "Completo"),
    Dto("Zelda", undefined, "img", "u1", "Completo") }

UpdateFew ==
  { NoDto, Dto(undefined, undefined, undefined, undefined, "Bogus") }

-----------------------------------------------------------------------------
(* The store *)

\* findById(id): the document, or the empty set for null
ById(id) == {g \in games : g._id = id}

\* the first required field the loop finds falsy, or undefined
MissingField(dto) ==
  LET missing == {k \in 1..Len(requiredFields) : Falsy(dto[requiredFields[k]])}
  IN  IF missing = {} THEN undefined
      ELSE requiredFields[CHOOSE k \in missing : \A j \in missing : k <= j]

\* dto.status && !validStatuses.includes(dto.status)
InvalidStatus(dto) == ~Falsy(dto.status) /\ dto.status \notin validStatuses

\* what the schema's validation lets save() store
SchemaAccepts(doc) == doc.status \in validStatuses

\* new this.gameModel(dto), saved: the dto's fields, the schema's default
\* status, a fresh _id and the store's timestamp
NewGame(dto, id, t) ==
  [_id |-> id, nome |-> dto.nome, description |-> dto.description,
   image |-> dto.image, userId |-> dto.userId,
   status |-> IF dto.status = undefined THEN SchemaDefaultStatus ELSE dto.status,
   updatedAt |-> t, updatedBy |-> undefined]

\* the update without its updatedAt stamp: { ...dto } alone
UpdatedGame_noStamp(g, dto, t) ==
  [k \in DOMAIN g |->
     IF k \in DOMAIN dto /\ dto[k] # undefined THEN dto[k] ELSE g[k]]

\* findByIdAndUpdate(id, { ...dto, updatedAt: new Date() }): the fields the
\* dto carries replace the document's, no validator is run
UpdatedGame(g, dto, t) ==
  [k \in DOMAIN g |->
     IF k = "updatedAt" THEN t
     ELSE IF k \in DOMAIN dto /\ dto[k] # undefined THEN dto[k]
     ELSE g[k]]

\* the document found and returned, but not deleted (findById for
\* findByIdAndDelete)
AfterDelete_kept(id) == games

\* findByIdAndDelete(id): the collection without the document of that id
AfterDelete(id) == {g \in games : g._id # id}

\* the call ends: its outcome is there for the caller
Finish(outcome) == res' = outcome /\ pc' = IdlePc

-----------------------------------------------------------------------------
(* create, update, remove *)

create(dto) ==
  /\ Idle
  /\ IF MissingField(dto) # undefined
     THEN /\ Finish(Outcome("create", 0, undefined, dto,
                 BadRequestException("Missing required field", MissingField(dto)),
                 undefined, <<>>))
          /\ UNCHANGED <<games, users, nextId, now>>
     ELSE IF InvalidStatus(dto)
     THEN /\ Finish(Outcome("create", 0, undefined, dto,
                 BadRequestException("Invalid status", dto.status),
                 undefined, <<>>))
          /\ UNCHANGED <<games, users, nextId, now>>
     ELSE \E ok \in BOOLEAN :
            LET newGame == NewGame(dto, nextId, now) IN
            IF ~ok
            THEN /\ Finish(Outcome("create", 0, undefined, dto, StoreError,
                        undefined, <<"fail">>))
                 /\ UNCHANGED <<games, users, nextId, now>>
            ELSE IF ~SchemaAccepts(newGame)
            THEN /\ Finish(Outcome("create", 0, undefined, dto, ValidationError,
                        undefined, <<"fail">>))
                 /\ UNCHANGED <<games, users, nextId, now>>
            ELSE /\ nextId <= MaxGames
                 /\ games' = games \cup {newGame}
                 /\ nextId' = nextId + 1
                 /\ Finish(Outcome("create", 0, undefined, dto, NoError,
                        newGame, <<"ok">>))
                 /\ UNCHANGED <<users, now>>

update(id, dto) ==
  /\ Idle
  /\ IF InvalidStatus(dto)
     THEN /\ Finish(Outcome("update", id, undefined, dto,
                 BadRequestException("Invalid status", dto.status),
                 undefined, <<>>))
          /\ UNCHANGED <<games, users, nextId, now>>
     ELSE \E ok \in BOOLEAN :
            IF ~ok
            THEN /\ Finish(Outcome("update", id, undefined, dto, StoreError,
                        undefined, <<"fail">>))
                 /\ UNCHANGED <<games, users, nextId, now>>
            ELSE IF ById(id) = {}
            THEN /\ Finish(Outcome("update", id, undefined, dto,
                        BadRequestException("Game not found", ToString(id)),
                        undefined, <<"ok">>))
                 /\ UNCHANGED <<games, users, nextId, now>>
            ELSE LET g == CHOOSE g \in ById(id) : TRUE
                     updatedGame == UpdatedGame(g, dto, now)
                 IN  /\ games' = (games \ {g}) \cup {updatedGame}
                     /\ Finish(Outcome("update", id, undefined, dto, NoError,
                            updatedGame, <<"ok">>))
                     /\ UNCHANGED <<users, nextId, now>>

remove(id) ==
  /\ Idle
  /\ \E ok \in BOOLEAN :
       IF ~ok
       THEN /\ Finish(Outcome("remove", id, undefined, NoDto, StoreError,
                   undefined, <<"fail">>))
            /\ UNCHANGED <<games, users, nextId, now>>
       ELSE IF ById(id) = {}
       THEN \* removedGame is null and the log line reads removedGame._id
            /\ Finish(Outcome("remove", id, undefined, NoDto, TypeError,
                   undefined, <<"ok">>))
            /\ UNCHANGED <<games, users, nextId, now>>
       ELSE LET removedGame == CHOOSE g \in ById(id) : TRUE
            IN  /\ games' = AfterDelete(id)
                /\ Finish(Outcome("remove", id, undefined, NoDto, NoError,
                       removedGame, <<"ok">>))
                /\ UNCHANGED <<users, nextId, now>>

-----------------------------------------------------------------------------
(* findAll, findByUser, findById, getGameDistributionByUser *)

findAll ==
  /\ Idle
  /\ \E ok \in BOOLEAN :
       Finish(IF ok
              THEN Outcome("findAll", 0, undefined, NoDto, NoError, games, <<"ok">>)
              ELSE Outcome("findAll", 0, undefined, NoDto, StoreError,
                           undefined, <<"fail">>))
  /\ UNCHANGED <<games, users, nextId, now>>

\* the filter findByUser builds: the status only when it is truthy
UserFilter(userId, status) ==
  {g \in games : g.userId = userId /\ (Falsy(status) \/ g.status = status)}

findByUser(userId, status) ==
  /\ Idle
  /\ \E ok \in BOOLEAN :
       Finish(IF ok
              THEN Outcome("findByUser", 0, userId,
                           Dto(undefined, undefined, undefined, undefined, status),
                           NoError, UserFilter(userId, status), <<"ok">>)
              ELSE Outcome("findByUser", 0, userId,
                           Dto(undefined, undefined, undefined, undefined, status),
                           StoreError, undefined, <<"fail">>))
  /\ UNCHANGED <<games, users, nextId, now>>

findById(id) ==
  /\ Idle
  /\ \E ok \in BOOLEAN :
       Finish(IF ~ok
              THEN Outcome("findById", id, undefined, NoDto, StoreError,
                           undefined, <<"fail">>)
              ELSE IF ById(id) = {}
              THEN Outcome("findById", id, undefined, NoDto,
                           NotFoundException("Game not found", ToString(id)),
                           undefined, <<"ok">>)
              ELSE Outcome("findById", id, undefined, NoDto, NoError,
                           CHOOSE g \in ById(id) : TRUE, <<"ok">>))
  /\ UNCHANGED <<games, users, nextId, now>>

\* the aggregation without its $match stage: every user's games are grouped
StatusGroups_noMatch(userId) ==
  { [_id |-> s, count |-> Cardinality({g \in games : g.status = s})] :
      s \in {g.status : g \in games} }

\* aggregate([{ $match: { userId } }, { $group: { _id: '$status', count: { $sum: 1 } } }])
StatusGroups(userId) ==
  LET matched == {g \in games : g.userId = userId}
  IN  { [_id |-> s, count |-> Cardinality({g \in matched : g.status = s})] :
          s \in {g.status : g \in matched} }

\* groups.reduce((acc, group) => { acc[group._id] = group.count }, {})
Distribution(groups) ==
  [s \in {gr._id : gr \in groups} |-> (CHOOSE gr \in groups : gr._id = s).count]

getGameDistributionByUser(userId) ==
  /\ Idle
  /\ \E ok \in BOOLEAN :
       Finish(IF ok
              THEN Outcome("getGameDistributionByUser", 0, userId, NoDto, NoError,
                           Distribution(StatusGroups(userId)), <<"ok">>)
              ELSE Outcome("getGameDistributionByUser", 0, userId, NoDto,
                           StoreError, undefined, <<"fail">>))
  /\ UNCHANGED <<games, users, nextId, now>>

-----------------------------------------------------------------------------
(* getLastGamesUpdated, getLastGamesUpdatedByUser *)

\* no .sort(): any document may come next
Latest_unsorted(docs) == docs

\* the documents of docs with the greatest updatedAt
Latest(docs) == {d \in docs : \A e \in docs : e.updatedAt <= d.updatedAt}

\* .sort({ updatedAt: -1 }).limit(k): every order the store may return, ties
\* among equal updatedAt broken either way
RECURSIVE Sorted(_, _)
Sorted(docs, k) ==
  IF k = 0 \/ docs = {} THEN {<<>>}
  ELSE UNION { { <<d>> \o rest : rest \in Sorted(docs \ {d}, k - 1) } :
               d \in Latest(docs) }

\* the projection of getLastGamesUpdated
ProjectWithUserId(g) ==
  [_id |-> g._id, nome |-> g.nome, updatedAt |-> g.updatedAt,
   updatedBy |-> g.updatedBy, userId |-> g.userId, image |-> g.image]

\* the projection of getLastGamesUpdatedByUser
ProjectByUser(g) ==
  [_id |-> g._id, nome |-> g.nome, updatedAt |-> g.updatedAt,
   updatedBy |-> g.updatedBy, image |-> g.image]

\* games.map((game) => game.userId)
PageUserIds(page) == {Get(page[k], "userId") : k \in 1..Len(page)}

\* userModel.find({ _id: { $in: userIds } })
UsersIn(userIds) == {u \in users : u._id \in userIds}

\* { id: user._id, name: user.nome, picture: user.picture }
Summary(user) == [id |-> user._id, name |-> user.nome, picture |-> user.picture]

\* one game of the page with its user attached
Formatted(game, found) ==
  LET match == {u \in found : String(u._id) = String(Get(game, "userId"))}
  IN  Spread(game, "user",
             IF match # {} THEN Summary(CHOOSE u \in match : TRUE) ELSE Unknown)

\* games.map(...) over the page
FormattedGames(page, found) == [k \in 1..Len(page) |-> Formatted(page[k], found)]

\* the catch block rethrowing what it caught
TryAgainLater_rethrown == StoreError

\* the error getLastGamesUpdated turns every failure into
TryAgainLater ==
  BadRequestException("Error fetching games. Please try again later.", "")

\* first await of getLastGamesUpdated: the page of games
getLastGamesUpdated_games ==
  /\ Idle
  /\ \E ok \in BOOLEAN :
       IF ~ok
       THEN Finish(Outcome("getLastGamesUpdated", 0, undefined, NoDto,
                           TryAgainLater, undefined, <<"fail">>))
       ELSE \E sorted \in Sorted(games, LIMIT) :
              LET page == [k \in 1..Len(sorted) |-> ProjectWithUserId(sorted[k])]
              IN  IF Len(page) = 0
                  THEN Finish(Outcome("getLastGamesUpdated", 0, undefined, NoDto,
                                      NoError, <<>>, <<"ok">>))
                  ELSE /\ pc' = [op |-> "getLastGamesUpdated", games |-> page,
                                 userId |-> undefined]
                       /\ res' = res
  /\ UNCHANGED <<games, users, nextId, now>>

\* second await of getLastGamesUpdated: the users, then the merge
getLastGamesUpdated_users ==
  /\ pc.op = "getLastGamesUpdated"
  /\ res = NoOutcome
  /\ \E ok \in BOOLEAN :
       Finish(IF ok
              THEN Outcome("getLastGamesUpdated", 0, undefined, NoDto, NoError,
                           FormattedGames(pc.games, UsersIn(PageUserIds(pc.games))),
                           <<"ok", "ok">>)
              ELSE Outcome("getLastGamesUpdated", 0, undefined, NoDto,
                           TryAgainLater, undefined, <<"ok", "fail">>))
  /\ UNCHANGED <<games, users, nextId, now>>

\* first await of getLastGamesUpdatedByUser
getLastGamesUpdatedByUser_games(userId) ==
  /\ Idle
  /\ \E ok \in BOOLEAN :
       IF ~ok
       THEN Finish(Outcome("getLastGamesUpdatedByUser", 0, userId, NoDto,
                           StoreError, undefined, <<"fail">>))
       ELSE \E sorted \in Sorted({g \in games : g.userId = userId}, LIMIT) :
              LET page == [k \in 1..Len(sorted) |-> ProjectByUser(sorted[k])]
              IN  IF Len(page) = 0
                  THEN Finish(Outcome("getLastGamesUpdatedByUser", 0, userId, NoDto,
                                      NoError, <<>>, <<"ok">>))
                  ELSE /\ pc' = [op |-> "getLastGamesUpdatedByUser", games |-> page,
                                 userId |-> userId]
                       /\ res' = res
  /\ UNCHANGED <<games, users, nextId, now>>

\* second await of getLastGamesUpdatedByUser
getLastGamesUpdatedByUser_users ==
  /\ pc.op = "getLastGamesUpdatedByUser"
  /\ res = NoOutcome
  /\ \E ok \in BOOLEAN :
       Finish(IF ok
              THEN Outcome("getLastGamesUpdatedByUser", 0, pc.userId, NoDto, NoError,
                           FormattedGames(pc.games, UsersIn(PageUserIds(pc.games))),
                           <<"ok", "ok">>)
              ELSE Outcome("getLastGamesUpdatedByUser", 0, pc.userId, NoDto,
                           StoreError, undefined, <<"ok", "fail">>))
  /\ UNCHANGED <<games, users, nextId, now>>

-----------------------------------------------------------------------------
(* The surroundings *)

\* a user is registered
UserCreated(u) ==
  /\ res = NoOutcome
  /\ u \notin users
  /\ users' = users \cup {u}
  /\ UNCHANGED <<games, nextId, now, pc, res>>

\* a user is deleted; the games that name it stay
UserDeleted(u) ==
  /\ res = NoOutcome
  /\ u \in users
  /\ users' = users \ {u}
  /\ UNCHANGED <<games, nextId, now, pc, res>>

\* time passes
Tick ==
  /\ res = NoOutcome
  /\ now < MaxClock
  /\ now' = now + 1
  /\ UNCHANGED <<games, users, nextId, pc, res>>

\* the caller takes the outcome of the call
Return ==
  /\ res # NoOutcome
  /\ res' = NoOutcome
  /\ UNCHANGED <<games, users, nextId, now, pc>>

-----------------------------------------------------------------------------
(* The service under every call *)

Next ==
  \/ \E dto \in CreateFew : create(dto)
  \/ \E id \in GameIds, dto \in UpdateFew : update(id, dto)
  \/ \E id \in GameIds : remove(id)
  \/ findAll
  \/ \E userId \in UserIds, status \in {undefined, "Completo"} : findByUser(userId, status)
  \/ \E id \in GameIds : findById(id)
  \/ \E userId \in UserIds : getGameDistributionByUser(userId)
  \/ getLastGamesUpdated_games
  \/ getLastGamesUpdated_users
  \/ \E userId \in UserIds : getLastGamesUpdatedByUser_games(userId)
  \/ getLastGamesUpdatedByUser_users
  \/ \E u \in UserPool : UserCreated(u)
  \/ \E u \in UserPool : UserDeleted(u)
  \/ Tick
  \/ Return

Spec == Init /\ [][Next]_vars

-----------------------------------------------------------------------------
(* The methods that write, under every body *)

\* the reading methods change nothing, so the collections this reaches are
\* the ones the whole service reaches under the same bodies
NextWrites ==
  \/ \E dto \in CreateInputs : create(dto)
  \/ \E id \in GameIds, dto \in UpdateInputs : update(id, dto)
  \/ \E id \in GameIds : remove(id)
  \/ \E id \in GameIds : findById(id)
  \/ Tick
  \/ Return

SpecWrites == Init /\ [][NextWrites]_vars

-----------------------------------------------------------------------------
(* The reporting queries over a populated collection *)

\* a game as create stores it for owner u, last touched at time t: still
\* Pendente when never touched after time 0, Completo otherwise
SeedGame(id, u, t) ==
  NewGame(Dto("Zelda", "desc", "img", u, IF t = 0 THEN undefined ELSE "Completo"),
          id, t)

\* any collection of up to MaxRecent games, the first j of them owned by u1
\* and the others by u2, each last touched at time 0 or 1, with any users
InitReports ==
  /\ \E n \in 0..MaxRecent :
       \E j \in 0..n, stamp \in [1..n -> {0, 1}] :
         /\ games = {SeedGame(k, IF k <= j THEN "u1" ELSE "u2", stamp[k]) : k \in 1..n}
         /\ nextId = n + 1
  /\ users \in SUBSET UserPool
  /\ now = 1
  /\ pc = IdlePc
  /\ res = NoOutcome

NextReports ==
  \/ getLastGamesUpdated_games
  \/ getLastGamesUpdated_users
  \/ \E userId \in UserIds : getLastGamesUpdatedByUser_games(userId)
  \/ getLastGamesUpdatedByUser_users
  \/ \E userId \in UserIds : getGameDistributionByUser(userId)
  \/ \E u \in UserPool : UserCreated(u)
  \/ \E u \in UserPool : UserDeleted(u)
  \/ Return

SpecReports == InitReports /\ [][NextReports]_vars

-----------------------------------------------------------------------------
(* Properties *)

\* the call that has just finished in this step
Finished(op) == res = NoOutcome /\ res'.op = op

\* C1: remove(id) of an id that no game has completes without an error,
\* returns nothing and leaves the collection as it was.
C1_RemoveOfMissingIdDoesNotFail ==
  [][ (Finished("remove") /\ res'.qlog = <<"ok">> /\ ById(res'.id) = {})
        => (res'.err.kind = "none" /\ res'.val = undefined /\ games' = games) ]_vars

\* C2: every game getLastGamesUpdatedByUser(userId) returns carries the
\* {id, name, picture} summary of the user of that id when that user exists,
\* and "Unknown" only when it does not.
C2_ByUserAttachesOwnerSummary ==
  (res.op = "getLastGamesUpdatedByUser" /\ res.err.kind = "none")
    => \A k \in 1..Len(res.val) :
         res.val[k].user =
           IF \E u \in users : u._id = res.userId
           THEN LET u == CHOOSE u \in users : u._id = res.userId
                IN  [id |-> u._id, name |-> u.nome, picture |-> u.picture]
           ELSE [string |-> "Unknown"]

\* C3: every stored game that has a status has one of the four enum values.
C3_StoredStatusIsInEnum ==
  \A g \in games :
    g.status # undefined
      => g.status \in {"Pendente", "Progresso", "Pausado", "Completo"}

\* C4: every stored game has a non-empty userId.
C4_StoredGameHasUserId ==
  \A g \in games : g.userId # undefined /\ g.userId # ""

\* the first of nome, description, image, userId that the dto lacks
FirstLacking(dto) ==
  IF dto.nome \in {undefined, ""} THEN "nome"
  ELSE IF dto.description \in {undefined, ""} THEN "description"
  ELSE IF dto.image \in {undefined, ""} THEN "image"
  ELSE IF dto.userId \in {undefined, ""} THEN "userId"
  ELSE undefined

\* C6: create with a required field missing or falsy, or with a supplied
\* status outside the enum, fails with a BadRequestException that names the
\* first such field (or the status), and stores nothing.
C6_CreateRejectsInvalidInput ==
  [][ (/\ Finished("create")
       /\ res'.err.kind # "StoreError"
       /\ \/ FirstLacking(res'.dto) # undefined
          \/ /\ res'.dto.status # undefined
             /\ res'.dto.status \notin {"Pendente", "Progresso", "Pausado", "Completo"})
        => /\ res'.err.kind = "BadRequestException"
           /\ res'.err.arg = IF FirstLacking(res'.dto) # undefined
                             THEN FirstLacking(res'.dto) ELSE res'.dto.status
           /\ games' = games ]_vars

\* C7: update(id, dto) of an existing game, with no status or a valid one,
\* replaces exactly the fields the dto carries, stamps updatedAt with the
\* current time even when the dto is empty, and touches no other field and
\* no other game; update of an id no game has fails with a
\* BadRequestException and creates nothing.
C7_UpdateReplacesExactlySuppliedFields ==
  [][ (/\ Finished("update")
       /\ res'.qlog = <<"ok">>
       /\ res'.dto.status \in {undefined, "Pendente", "Progresso", "Pausado", "Completo"})
        => IF \E g \in games : g._id = res'.id
           THEN LET old == CHOOSE g \in games : g._id = res'.id
                    dto == res'.dto
                IN  /\ res'.err.kind = "none"
                    /\ res'.val \in games'
                    /\ games' \ {res'.val} = games \ {old}
                    /\ res'.val._id = old._id
                    /\ res'.val.updatedBy = old.updatedBy
                    /\ res'.val.updatedAt = now
                    /\ \A k \in {"nome", "description", "image", "userId", "status"} :
                         res'.val[k] = IF dto[k] # undefined THEN dto[k] ELSE old[k]
           ELSE /\ res'.err.kind = "BadRequestException"
                /\ games' = games ]_vars

\* C7 witness: an empty update of one of two games has refreshed its updatedAt
C7_Witness ==
  /\ res.op = "update" /\ res.err.kind = "none" /\ res.dto = NoDto
  /\ now > 0 /\ res.val.updatedAt = now
  /\ Cardinality(games) = 2

RECURSIVE SumOver(_, _)
SumOver(f, S) ==
  IF S = {} THEN 0
  ELSE LET x == CHOOSE x \in S : TRUE IN f[x] + SumOver(f, S \ {x})

\* C9: getGameDistributionByUser(userId) maps exactly the statuses that some
\* game of that user has, each to the number of that user's games with it;
\* no status maps to 0, other users' games are not counted, and the counts
\* add up to the number of that user's games.
C9_DistributionCountsUsersGames ==
  (res.op = "getGameDistributionByUser" /\ res.err.kind = "none")
    => LET mine == {g \in games : g.userId = res.userId}
       IN  /\ DOMAIN res.val = {g.status : g \in mine}
           /\ \A s \in DOMAIN res.val :
                /\ res.val[s] = Cardinality({g \in mine : g.status = s})
                /\ res.val[s] > 0
           /\ SumOver(res.val, DOMAIN res.val) = Cardinality(mine)

\* C9 witness: a user with two Pendente games and one Completo game, next to
\* a game of another user
C9_Witness ==
  /\ res.op = "getGameDistributionByUser" /\ res.err.kind = "none"
  /\ DOMAIN res.val = {"Pendente", "Completo"}
  /\ res.val["Pendente"] = 2 /\ res.val["Completo"] = 1
  /\ \E g \in games : g.userId # res.userId

\* C5: getLastGamesUpdated returns at most 5 games, the ones with the
\* greatest updatedAt, in descending updatedAt order, each with the
\* {id, name, picture} summary of the user whose id is the game's userId, or
\* "Unknown" exactly when the user collection holds no such user.
C5_RecentPageIsTopFiveWithOwners ==
  (res.op = "getLastGamesUpdated" /\ res.err.kind = "none")
    => LET v == res.val
           n == Len(res.val)
           ids == {res.val[k]._id : k \in 1..Len(res.val)}
       IN  /\ n <= 5
           /\ n = IF Cardinality(games) < 5 THEN Cardinality(games) ELSE 5
           /\ Cardinality(ids) = n
           /\ \A k \in 1..n :
                \E g \in games :
                  /\ g._id = v[k]._id /\ g.updatedAt = v[k].updatedAt
                  /\ g.userId = v[k].userId /\ g.nome = v[k].nome
                  /\ g.image = v[k].image
           /\ \A k \in 1..(n - 1) : v[k].updatedAt >= v[k + 1].updatedAt
           /\ \A g \in games :
                g._id \notin ids => \A k \in 1..n : g.updatedAt <= v[k].updatedAt
           /\ \A k \in 1..n :
                v[k].user =
                  IF \E u \in users : u._id = v[k].userId
                  THEN LET u == CHOOSE u \in users : u._id = v[k].userId
                       IN  [id |-> u._id, name |-> u.nome, picture |-> u.picture]
                  ELSE [string |-> "Unknown"]

\* C5 witness: a full page out of six games, one game with its owner's
\* summary and one with "Unknown"
C5_Witness ==
  /\ res.op = "getLastGamesUpdated" /\ res.err.kind = "none"
  /\ Len(res.val) = 5 /\ Cardinality(games) = 6
  /\ \E k \in 1..5 : res.val[k].user = [string |-> "Unknown"]
  /\ \E k \in 1..5 : res.val[k].user # [string |-> "Unknown"]
  /\ \E k \in 1..4 : res.val[k].updatedAt > res.val[k + 1].updatedAt

\* C10: a failing store query ends the call at once (nothing is retried);
\* getLastGamesUpdated then throws its generic "try again later" error,
\* whichever of its two queries failed, and every other method throws the
\* store's own error.
C10_OnlyGetLastGamesUpdatedWrapsFailures ==
  res.op # "none"
    => LET q == res.qlog
           failed == \E k \in 1..Len(res.qlog) : res.qlog[k] = "fail"
       IN  /\ \A k \in 1..Len(q) : q[k] = "fail" => k = Len(q)
           /\ Len(q) <= IF res.op \in {"getLastGamesUpdated", "getLastGamesUpdatedByUser"}
                        THEN 2 ELSE 1
           /\ (failed /\ res.op = "getLastGamesUpdated")
                => /\ res.err.kind = "BadRequestException"
                   /\ res.err.msg = "Error fetching games. Please try again later."
           /\ (failed /\ res.op # "getLastGamesUpdated")
                => res.err.kind \in {"StoreError", "ValidationError"}
           /\ res.err.kind \in {"StoreError", "ValidationError"} => failed

\* C10 witness: the second query of getLastGamesUpdated failed and the
\* generic error came out
C10_Witness ==
  /\ res.op = "getLastGamesUpdated"
  /\ res.qlog = <<"ok", "fail">>
  /\ res.err.msg = "Error fetching games. Please try again later."
====
